---- MODULE Spec2Model ----
(***************************************************************************)
(* Model of pypixz_pro/scripts/install.py: the installed-package query,    *)
(* the membership check, the requirements installer and the single-module  *)
(* installer, together with the subprocess, file-system and logger         *)
(* behaviour they depend on. install_requirements reads the file system    *)
(* twice, before and after it waits for pip freeze, and is modelled in the *)
(* steps those waits separate.                                             *)
(*                                                                         *)
(* Python strings are sequences of one-character strings, so that lower(), *)
(* split(), strip() and readline() are computed, not assumed.              *)
(***************************************************************************)
EXTENDS Integers, Sequences, FiniteSets, TLC

\* pc is the position of the running call: "freeze" and "install" are the
\* waits of install_requirements in subprocess.run, during which other
\* processes run and the file system may change
VARIABLES op, pc, input, calls, log, outcome

vars == <<op, pc, input, calls, log, outcome>>

----------------------------------------------------------------------------
(* Bounds of the model                                                     *)

MaxLineLen == 4        \* length of a requirement line given to is_package_installed
MaxFreezeLines == 3    \* lines of pip freeze output given to get_installed_packages
MaxReqFreezeLines == 2 \* lines of pip freeze output seen by install_requirements
MaxReqLines == 2       \* lines of the requirements file
MaxTableKeys == 2      \* entries of a table given to is_package_installed

----------------------------------------------------------------------------
(* Python strings                                                          *)

NL == "\n"
EqEq == <<"=", "=">>
Whitespace == {" ", NL, "\t", "\r"}

Str(chars, n) == UNION {[1..k -> chars] : k \in 0..n}

\* str.lower(), one character
LowerChar(c) == IF c = "A" THEN "a" ELSE IF c = "B" THEN "b" ELSE c

\* str.lower()
Lower(s) == [i \in 1..Len(s) |-> LowerChar(s[i])]

OccursAt(s, sub, i) ==
    /\ i + Len(sub) - 1 <= Len(s)
    /\ \A k \in 1..Len(sub) : s[i + k - 1] = sub[k]

\* str.find(sub) + 1: the first position where sub occurs, 0 if none
Find(s, sub) ==
    IF \E i \in 1..Len(s) : OccursAt(s, sub, i)
    THEN CHOOSE i \in 1..Len(s) :
            OccursAt(s, sub, i) /\ \A j \in 1..(i - 1) : ~OccursAt(s, sub, j)
    ELSE 0

\* sub in s, for a non-empty sub
Contains(s, sub) == Find(s, sub) # 0

\* str.split(sep), for a non-empty sep: left to right, non-overlapping
RECURSIVE Split(_, _)
Split(s, sep) ==
    LET i == Find(s, sep)
    IN  IF i = 0 THEN <<s>>
        ELSE <<SubSeq(s, 1, i - 1)>> \o Split(SubSeq(s, i + Len(sep), Len(s)), sep)

\* str.strip()
RECURSIVE LStrip(_)
LStrip(s) == IF s # <<>> /\ Head(s) \in Whitespace THEN LStrip(Tail(s)) ELSE s

RECURSIVE RStrip(_)
RStrip(s) ==
    IF s # <<>> /\ s[Len(s)] \in Whitespace THEN RStrip(SubSeq(s, 1, Len(s) - 1)) ELSE s

Strip(s) == RStrip(LStrip(s))

\* sep.join(lines)
RECURSIVE Join(_, _)
Join(lines, sep) ==
    IF lines = <<>> THEN <<>>
    ELSE IF Len(lines) = 1 THEN lines[1]
    ELSE lines[1] \o sep \o Join(Tail(lines), sep)

\* file.readline(): the first line of the text, its newline included
ReadLine(content) ==
    LET i == Find(content, <<NL>>)
    IN  IF i = 0 THEN content ELSE SubSeq(content, 1, i)

----------------------------------------------------------------------------
(* Python values and outcomes of a call                                    *)

EmptyDict == <<>>

None == [t |-> "None", b |-> FALSE, s |-> <<>>, d |-> EmptyDict]
PyBool(x) == [t |-> "bool", b |-> x, s |-> <<>>, d |-> EmptyDict]
PyStr(x) == [t |-> "str", b |-> FALSE, s |-> x, d |-> EmptyDict]
PyDict(x) == [t |-> "dict", b |-> FALSE, s |-> <<>>, d |-> x]

\* bool(v)
Truthy(v) ==
    \/ v.t = "bool" /\ v.b
    \/ v.t = "str" /\ v.s # <<>>
    \/ v.t = "dict" /\ DOMAIN v.d # {}

Return(v) == [kind |-> "return", exc |-> "", value |-> v, cause |-> ""]
Raise(e, arg, cause) == [kind |-> "raise", exc |-> e, value |-> arg, cause |-> cause]

\* the message of a failed unpacking into two names
TooManyValues == <<"too many values to unpack (expected 2)">>

\* dict.get(key): the keys of a table are strings, the key asked for is any value
DictGet(d, key) ==
    IF key.t = "str" /\ key.s \in DOMAIN d THEN PyStr(d[key.s]) ELSE None

\* d[k] = v
DictSet(d, k, v) == [x \in (DOMAIN d) \cup {k} |-> IF x = k THEN v ELSE d[x]]

----------------------------------------------------------------------------
(* is_package_installed                                                    *)

\* the membership check without the lowercasing of a bare name
is_package_installed_NoLower(package_line, installed_packages) ==
    IF Contains(package_line, EqEq)
    THEN LET parts == Split(package_line, EqEq)
         IN  IF Len(parts) # 2
             THEN Raise("ValueError", PyStr(TooManyValues), "")
             ELSE Return(DictGet(installed_packages,
                                 PyBool(Lower(parts[1]) = parts[2])))
    ELSE Return(PyBool(package_line \in DOMAIN installed_packages))

is_package_installed(package_line, installed_packages) ==
    IF Contains(package_line, EqEq)
    THEN LET parts == Split(package_line, EqEq)
         IN  IF Len(parts) # 2
             THEN Raise("ValueError", PyStr(TooManyValues), "")
             ELSE LET name == parts[1]
                      required_version == parts[2]
                  IN  Return(DictGet(installed_packages,
                                     PyBool(Lower(name) = required_version)))
    ELSE Return(PyBool(Lower(package_line) \in DOMAIN installed_packages))

----------------------------------------------------------------------------
(* Exceptions, subprocess.run and the logger                               *)

\* the class hierarchy of exceptions.py and of the built-in kinds raised here
Parent(e) ==
    CASE e = "MissingRequirementsFileError" -> "DependencyError"
      [] e = "ModuleInstallationError" -> "DependencyError"
      [] e = "DependencyError" -> "BasePyPIxzProException"
      [] e = "BasePyPIxzProException" -> "Exception"
      [] e = "CalledProcessError" -> "Exception"
      [] e = "OSError" -> "Exception"
      [] e = "FileNotFoundError" -> "OSError"
      [] e = "PermissionError" -> "OSError"
      [] e = "UnicodeDecodeError" -> "ValueError"
      [] e = "ValueError" -> "Exception"
      [] e = "AttributeError" -> "Exception"
      [] e = "TypeError" -> "Exception"
      [] OTHER -> "Exception"

RECURSIVE IsA(_, _)
IsA(e, c) == IF e = c THEN TRUE ELSE IF e = "Exception" THEN FALSE ELSE IsA(Parent(e), c)

\* what the operating system answers to one subprocess invocation
Exit(code, stdout, stderr) ==
    [kind |-> "exit", code |-> code, stdout |-> stdout, stderr |-> stderr]
SpawnFailure == [kind |-> "oserror", code |-> 0, stdout |-> <<>>, stderr |-> <<>>]
\* an invocation the call has not made (yet)
NotRun == [kind |-> "none", code |-> 0, stdout |-> <<>>, stderr |-> <<>>]

OSErrorText == <<"[Errno 8] Exec format error">>

\* subprocess.run(command, check=True, capture_output=True, text=True)
subprocess_run(resp) ==
    IF resp.kind = "oserror"
    THEN Raise("OSError", PyStr(OSErrorText), "")
    ELSE IF resp.code # 0
    THEN Raise("CalledProcessError", PyStr(resp.stderr), "")
    ELSE Return(PyStr(resp.stdout))

FreezeCommand == [sub |-> "freeze", flags |-> <<>>, specs |-> <<>>]
InstallCommand(flags, specs) == [sub |-> "install", flags |-> flags, specs |-> specs]

LoggerName == [t |-> "str"]
LoggerObject == [t |-> "Logger"]

\* logging.getLogger(name): the Logger of that name; a name must be a string
getLogger(logger) ==
    IF logger.t = "str"
    THEN [outcome |-> Return(None), logger |-> LoggerObject]
    ELSE [outcome |-> Raise("TypeError", PyStr(<<"A logger name must be a string">>), ""),
          logger |-> logger]

\* logger.error(msg), logger.info(msg), logger.debug(msg): a Logger records the
\* message and returns None, a str has no such attribute
LoggerCall(logger, level, msg) ==
    IF logger.t = "Logger"
    THEN [outcome |-> Return(None), log |-> <<[level |-> level, msg |-> msg]>>]
    ELSE [outcome |-> Raise("AttributeError",
                            PyStr(<<"'str' object has no attribute '", level, "'">>), ""),
          log |-> <<>>]

\* error.stderr or 'Unknown error'
StderrOrUnknown(stderr) == IF stderr # <<>> THEN stderr ELSE <<"Unknown error">>

\* raise Exc(logger.error(text)) [from error]
RaiseWith(exc, l, cause) ==
    IF l.outcome.kind = "raise"
    THEN [outcome |-> l.outcome, log |-> l.log]
    ELSE [outcome |-> Raise(exc, l.outcome.value, cause), log |-> l.log]

RaiseLogged(logger, exc, text, cause) ==
    RaiseWith(exc, LoggerCall(logger, "error", text), cause)

----------------------------------------------------------------------------
(* get_installed_packages                                                  *)

\* the loop without the lowercasing of the name
RECURSIVE ParseFreeze_NoLower(_, _)
ParseFreeze_NoLower(lines, installed_packages) ==
    IF lines = <<>> THEN Return(PyDict(installed_packages))
    ELSE LET line == Head(lines)
         IN  IF Contains(line, EqEq)
             THEN LET parts == Split(line, EqEq)
                  IN  IF Len(parts) # 2
                      THEN Raise("ValueError", PyStr(TooManyValues), "")
                      ELSE ParseFreeze_NoLower(Tail(lines),
                              DictSet(installed_packages, parts[1], parts[2]))
             ELSE ParseFreeze_NoLower(Tail(lines), installed_packages)

\* the loop over result.stdout.split("\n")
RECURSIVE ParseFreeze(_, _)
ParseFreeze(lines, installed_packages) ==
    IF lines = <<>> THEN Return(PyDict(installed_packages))
    ELSE LET line == Head(lines)
         IN  IF Contains(line, EqEq)
             THEN LET parts == Split(line, EqEq)
                  IN  IF Len(parts) # 2
                      THEN Raise("ValueError", PyStr(TooManyValues), "")
                      ELSE ParseFreeze(Tail(lines),
                              DictSet(installed_packages, Lower(parts[1]), parts[2]))
             ELSE ParseFreeze(Tail(lines), installed_packages)

\* a result with the subprocess invocations made on the way to it
WithCalls(r, made) == [outcome |-> r.outcome, calls |-> made, log |-> r.log]

\* lines 35-42: what becomes of the answer of pip freeze
get_installed_packages_result(logger, result) ==
    IF result.kind = "raise" /\ result.exc = "CalledProcessError"
    THEN WithCalls(RaiseLogged(logger, "ModuleInstallationError",
                        <<"An error occurred while installing dependencies:\n">>
                            \o StderrOrUnknown(result.value.s), ""),
                   <<FreezeCommand>>)
    ELSE IF result.kind = "raise"
    THEN [outcome |-> result, calls |-> <<FreezeCommand>>, log |-> <<>>]
    ELSE [outcome |-> ParseFreeze(Split(result.value.s, <<NL>>), EmptyDict),
          calls |-> <<FreezeCommand>>, log |-> <<>>]

get_installed_packages(logger, freeze) ==
    get_installed_packages_result(logger, subprocess_run(freeze))

----------------------------------------------------------------------------
(* install_requirements                                                    *)

\* the file system's answer for the path. os.path.isfile (line 90) sees
\* whether a regular file is there, not what it holds; open and readline
\* (lines 97-98), after the wait for pip freeze, see what is there by then:
\* nothing, a file that open() refuses, a file that is not UTF-8 text, or a
\* text file
MissingFile == [kind |-> "missing", content |-> <<>>]
RegularFile == [kind |-> "regular", content |-> <<>>]
UnreadableFile == [kind |-> "unreadable", content |-> <<>>]
UndecodableFile == [kind |-> "undecodable", content |-> <<>>]
TextFile(content) == [kind |-> "text", content |-> content]
\* the call has not opened the file
NotOpened == [kind |-> "unopened", content |-> <<>>]

\* os.path.abspath(path), for a relative path
WorkingDirectory == <<"/cwd">>
abspath(path) == WorkingDirectory \o <<"/">> \o path

\* a path that is taken for a regular file although nothing is there
isfile_Always(file) == TRUE

\* os.path.isfile(absolute_path)
isfile(file) == file.kind # "missing"

\* open(absolute_path, "r", encoding="utf-8") followed by the read of line 98
open_and_read(absolute_path, file) ==
    IF file.kind = "missing"
    THEN Raise("FileNotFoundError",
               PyStr(<<"[Errno 2] No such file or directory: '">>
                        \o absolute_path \o <<"'">>), "")
    ELSE IF file.kind = "unreadable"
    THEN Raise("PermissionError",
               PyStr(<<"[Errno 13] Permission denied: '">>
                        \o absolute_path \o <<"'">>), "")
    ELSE IF file.kind = "undecodable"
    THEN Raise("UnicodeDecodeError", None, "")
    ELSE Return(PyStr(ReadLine(file.content)))

\* [line.strip() for line in file.readline() if line.strip()]: the iteration is
\* over the characters of the first line
RECURSIVE StripEach(_)
StripEach(items) ==
    IF items = <<>> THEN <<>>
    ELSE LET line == <<Head(items)>>
         IN  IF Strip(line) # <<>> THEN <<Strip(line)>> \o StripEach(Tail(items))
             ELSE StripEach(Tail(items))

required_packages_of(first_line) == StripEach(first_line)

\* one package of the comprehension below: kept when the check is falsy; an
\* exception of is_package_installed ends the comprehension
FilterStep(package, r, rest) ==
    IF r.kind = "raise" THEN [outcome |-> r, list |-> <<>>]
    ELSE IF rest.outcome.kind = "raise" THEN rest
    ELSE IF ~Truthy(r.value)
         THEN [outcome |-> Return(None), list |-> <<package>> \o rest.list]
         ELSE rest

\* [package for package in required_packages
\*      if not is_package_installed(package, existing_packages)]
RECURSIVE FilterMissing(_, _)
FilterMissing(required_packages, existing_packages) ==
    IF required_packages = <<>> THEN [outcome |-> Return(None), list |-> <<>>]
    ELSE FilterStep(Head(required_packages),
                    is_package_installed(Head(required_packages), existing_packages),
                    FilterMissing(Tail(required_packages), existing_packages))

RequirementsFlags == <<"--no-cache-dir", "--no-deps">>

\* lines 105-106
AllInstalledLog(packages_to_install) ==
    IF packages_to_install = <<>>
    THEN <<[level |-> "info", msg |-> <<"All dependencies are already installed.">>]>>
    ELSE <<>>

\* a step of install_requirements: the call has ended with r, or waits in
\* subprocess.run after what r records
Done(r) == [outcome |-> r.outcome, calls |-> r.calls, log |-> r.log, pending |-> FALSE]
Waiting(made, logged) ==
    [outcome |-> Return(None), calls |-> made, log |-> logged, pending |-> TRUE]

\* lines 114-122: the answer of pip install and what follows it
install_requirements_run(before, result) ==
    IF result.kind = "raise"
    THEN [outcome |-> result, calls |-> before.calls, log |-> before.log,
          pending |-> FALSE]
    ELSE [outcome |-> Return(None), calls |-> before.calls,
          log |-> before.log \o
             <<[level |-> "info", msg |-> <<"Successfully installed dependencies.">>],
               [level |-> "debug", msg |-> <<"Command output:\n">> \o result.value.s]>>,
          pending |-> FALSE]

\* lines 100-114: the filter, the log record and the pip install invocation
install_requirements_filter(existing, filtered) ==
    IF filtered.outcome.kind = "raise"
    THEN [outcome |-> filtered.outcome, calls |-> existing.calls,
          log |-> existing.log, pending |-> FALSE]
    ELSE Waiting(existing.calls \o <<InstallCommand(RequirementsFlags, filtered.list)>>,
                 existing.log \o AllInstalledLog(filtered.list))

\* lines 97-98
install_requirements_read(existing, read) ==
    IF read.kind = "raise"
    THEN [outcome |-> read, calls |-> existing.calls, log |-> existing.log,
          pending |-> FALSE]
    ELSE install_requirements_filter(existing,
            FilterMissing(required_packages_of(read.value.s), existing.outcome.value.d))

\* line 95 and the try block up to the pip install invocation
install_requirements_query(path, file, existing) ==
    IF existing.outcome.kind = "raise" THEN Done(existing)
    ELSE install_requirements_read(existing, open_and_read(abspath(path), file))

\* the try block from the answer of pip freeze to the pip install invocation,
\* lines 95-114
install_requirements_try(path, file, logger, freeze) ==
    install_requirements_query(path, file, get_installed_packages(logger, freeze))

\* what the handler raised, after what the body did
AfterBody(body, r) ==
    [outcome |-> r.outcome, calls |-> body.calls, log |-> body.log \o r.log]

\* the except clauses, lines 124-127
install_requirements_except(logger, body) ==
    IF body.outcome.kind = "raise" /\ IsA(body.outcome.exc, "CalledProcessError")
    THEN Done(AfterBody(body, RaiseLogged(logger, "ModuleInstallationError",
                    <<"An error occurred while installing dependencies:\n">>
                        \o StderrOrUnknown(body.outcome.value.s),
                    "CalledProcessError")))
    ELSE IF body.outcome.kind = "raise" /\ IsA(body.outcome.exc, "OSError")
    THEN Done(AfterBody(body, RaiseLogged(logger, "DependencyError",
                    <<"OS error occurred during installation: ">>
                        \o body.outcome.value.s, body.outcome.exc)))
    ELSE body

\* lines 86-95, with the logger of line 87: up to the pip freeze invocation
install_requirements_checked(path, file, got) ==
    IF got.outcome.kind = "raise"
    THEN [outcome |-> got.outcome, calls |-> <<>>, log |-> <<>>, pending |-> FALSE]
    ELSE IF ~isfile(file)
    THEN Done(WithCalls(RaiseLogged(got.logger, "MissingRequirementsFileError",
                        <<"The ">> \o path \o <<" file was not found.">>, ""),
                   <<>>))
    ELSE Waiting(<<FreezeCommand>>, <<>>)

----------------------------------------------------------------------------
(* install_modules                                                         *)

\* the specifier with the range tested before the version
package_specifier_of_RangeFirst(module, version, version_range) ==
    IF Truthy(version_range) THEN module \o version_range.s
    ELSE IF Truthy(version) THEN module \o EqEq \o version.s
    ELSE module

\* lines 153-158: the specifier from the module, the version and the range
package_specifier_of(module, version, version_range) ==
    IF Truthy(version) THEN module \o EqEq \o version.s
    ELSE IF Truthy(version_range) THEN module \o version_range.s
    ELSE module

\* lines 175-176: the two records after a successful invocation
install_modules_logged(package_specifier, info, debug) ==
    IF info.outcome.kind = "raise"
    THEN [outcome |-> info.outcome,
          calls |-> <<InstallCommand(<<>>, <<package_specifier>>)>>, log |-> <<>>]
    ELSE [outcome |-> debug.outcome,
          calls |-> <<InstallCommand(<<>>, <<package_specifier>>)>>,
          log |-> info.log \o debug.log]

\* lines 168-176
install_modules_run(module, package_specifier, logger, result) ==
    IF result.kind = "raise"
    THEN [outcome |-> result,
          calls |-> <<InstallCommand(<<>>, <<package_specifier>>)>>, log |-> <<>>]
    ELSE install_modules_logged(package_specifier,
            LoggerCall(logger, "info",
                <<"Module ">> \o module \o <<" successfully installed.">>),
            LoggerCall(logger, "debug", <<"Command output:\n">> \o result.value.s))

\* the body of the try block, lines 160-176
install_modules_try(module, package_specifier, logger, inst) ==
    install_modules_run(module, package_specifier, logger, subprocess_run(inst))

\* the except clauses and the return, lines 178-183
install_modules_except(module, logger, body) ==
    IF body.outcome.kind = "raise" /\ IsA(body.outcome.exc, "CalledProcessError")
    THEN AfterBody(body, RaiseLogged(logger, "ModuleInstallationError",
                    <<"An error occurred while installing the module ">> \o module
                        \o <<":\n">> \o StderrOrUnknown(body.outcome.value.s),
                    "CalledProcessError"))
    ELSE IF body.outcome.kind = "raise"
            /\ (IsA(body.outcome.exc, "OSError")
                \/ IsA(body.outcome.exc, "DependencyError"))
    THEN AfterBody(body, RaiseLogged(logger, "ModuleInstallationError",
                    <<"System or dependency error for the module ">> \o module
                        \o <<": ">> \o body.outcome.value.s, body.outcome.exc))
    ELSE IF body.outcome.kind = "raise" THEN body
    ELSE [outcome |-> Return(PyBool(TRUE)), calls |-> body.calls, log |-> body.log]

install_modules(module, version, version_range, logger, inst) ==
    install_modules_except(module, logger,
        install_modules_try(module,
            package_specifier_of(module, version, version_range), logger, inst))

----------------------------------------------------------------------------
(* Inputs                                                                  *)

LineChars == {"a", "B", "=", "1"}
TableKeys == {<<"a">>, <<"b">>, <<"1">>, <<"a", "b">>}
TableVersions == {<<"1">>, <<"a">>}
Tables == UNION {[K -> TableVersions] :
                   K \in {S \in SUBSET TableKeys : Cardinality(S) <= MaxTableKeys}}

\* lines pip freeze may print: pairs, a name in upper case, the same name at
\* two versions, a line that is no pair, a blank line, a line with two "=="
FreezeLines ==
    { <<>>,
      <<"a", "=", "=", "1">>,
      <<"a", "=", "=", "2">>,
      <<"B", "=", "=", "2">>,
      <<"a", "b", "=", "=", "1">>,
      <<"a", "b">>,
      <<"a", "=", "=", "1", "=", "=", "2">> }

\* the lines among them that decide what install_requirements installs
ReqFreezeLines ==
    { <<"a", "=", "=", "1">>,
      <<"B", "=", "=", "2">>,
      <<"a", "b", "=", "=", "1">>,
      <<"a", "=", "=", "1", "=", "=", "2">> }

Texts(lines, n) == {Join(ls, <<NL>>) : ls \in UNION {[1..k -> lines] : k \in 0..n}}

Stderrs == {<<>>, <<"E">>}

FreezeResponses(lines, n) ==
    {Exit(0, out, <<>>) : out \in Texts(lines, n)}
        \cup {Exit(1, <<>>, e) : e \in Stderrs} \cup {SpawnFailure}

InstallResponses ==
    {Exit(0, <<"O">>, <<>>)} \cup {Exit(1, <<>>, e) : e \in Stderrs} \cup {SpawnFailure}

\* lines of a requirements file: bare names, a pinned name, padding, a blank line
ReqLines ==
    { <<"a">>, <<"B">>, <<"a", "b">>, <<"a", "=", "=", "1">>, <<" ", "a">>, <<" ">> }

\* what os.path.isfile may find at line 90
FilesAtCheck == {MissingFile, RegularFile}

\* what open may find at line 97
Files ==
    {MissingFile, UnreadableFile, UndecodableFile}
        \cup {TextFile(t \o e) : t \in Texts(ReqLines, MaxReqLines), e \in {<<>>, <<NL>>}}

Paths == {<<"r">>}

Modules == {<<"a">>, <<"a", "B">>}
Versions == {None, PyStr(<<>>), PyStr(<<"1">>)}
VersionRanges == {None, PyStr(<<>>), PyStr(<<">", "=", "1">>)}
Loggers == {LoggerName, LoggerObject}

Init ==
    /\ op = "idle"
    /\ pc = "idle"
    /\ input = [none |-> TRUE]
    /\ calls = <<>>
    /\ log = <<>>
    /\ outcome = Return(None)

\* the call ends with r: its outcome, the invocations it made, what it logged
Ends(r) ==
    /\ pc' = "done"
    /\ outcome' = r.outcome
    /\ calls' = r.calls
    /\ log' = r.log

\* install_requirements ends with r, or waits at next after what r records
Steps(r, next) ==
    /\ pc' = IF r.pending THEN next ELSE "done"
    /\ outcome' = IF r.pending THEN outcome ELSE r.outcome
    /\ calls' = r.calls
    /\ log' = r.log

CallIsPackageInstalled ==
    /\ op = "idle"
    /\ \E line \in Str(LineChars, MaxLineLen), table \in Tables :
         /\ op' = "is_package_installed"
         /\ pc' = "done"
         /\ input' = [line |-> line, table |-> table]
         /\ outcome' = is_package_installed(line, table)
    /\ UNCHANGED <<calls, log>>

CallGetInstalledPackages ==
    /\ op = "idle"
    /\ \E logger \in Loggers, freeze \in FreezeResponses(FreezeLines, MaxFreezeLines) :
         /\ op' = "get_installed_packages"
         /\ input' = [logger |-> logger, freeze |-> freeze]
         /\ Ends(get_installed_packages(logger, freeze))

\* install_requirements, lines 86-95: the logger, the isfile test, and the
\* pip freeze invocation in which the call then waits
CallInstallRequirements ==
    /\ op = "idle"
    /\ \E path \in Paths, file \in FilesAtCheck :
         /\ op' = "install_requirements"
         /\ input' = [path |-> path, file |-> file, logger |-> LoggerName,
                      freeze |-> NotRun, file_at_open |-> NotOpened, inst |-> NotRun]
         /\ Steps(install_requirements_checked(path, file, getLogger(LoggerName)),
                  "freeze")

\* install_requirements, lines 95-114: pip freeze answers; the file is opened
\* as the file system holds it by now, unless the query failed; the call ends
\* or waits in the pip install invocation
InstallRequirementsAfterFreeze ==
    /\ op = "install_requirements"
    /\ pc = "freeze"
    /\ \E freeze \in FreezeResponses(ReqFreezeLines, MaxReqFreezeLines),
          file \in Files \cup {NotOpened} :
         /\ (file = NotOpened) <=>
               (get_installed_packages(getLogger(input.logger).logger, freeze).outcome.kind
                    = "raise")
         /\ input' = [input EXCEPT !.freeze = freeze, !.file_at_open = file]
         /\ Steps(install_requirements_except(getLogger(input.logger).logger,
                     install_requirements_try(input.path, file,
                                              getLogger(input.logger).logger,
                                              freeze)),
                  "install")
    /\ UNCHANGED op

\* install_requirements, lines 114-127: pip install answers
InstallRequirementsAfterInstall ==
    /\ op = "install_requirements"
    /\ pc = "install"
    /\ \E inst \in InstallResponses :
         /\ input' = [input EXCEPT !.inst = inst]
         /\ Steps(install_requirements_except(getLogger(input.logger).logger,
                     install_requirements_run([calls |-> calls, log |-> log],
                                              subprocess_run(inst))),
                  "done")
    /\ UNCHANGED op

CallInstallModules ==
    /\ op = "idle"
    /\ \E module \in Modules, version \in Versions, version_range \in VersionRanges,
          logger \in Loggers, inst \in InstallResponses :
         /\ op' = "install_modules"
         /\ input' = [module |-> module, version |-> version,
                      version_range |-> version_range,
                      logger |-> logger, inst |-> inst]
         /\ Ends(install_modules(module, version, version_range, logger, inst))

Next ==
    \/ CallIsPackageInstalled
    \/ CallGetInstalledPackages
    \/ CallInstallRequirements
    \/ InstallRequirementsAfterFreeze
    \/ InstallRequirementsAfterInstall
    \/ CallInstallModules

Spec == Init /\ [][Next]_vars

----------------------------------------------------------------------------
(* What the specification says, stated without the code's operators where  *)
(* the two could differ                                                    *)

\* the line has the form name==version
IsPair(line) == Len(Split(line, EqEq)) = 2
PairName(line) == Split(line, EqEq)[1]
PairVersion(line) == Split(line, EqEq)[2]

\* no two adjacent "=" in the line
IsBare(line) == \A i \in 1..(Len(line) - 1) : ~(line[i] = "=" /\ line[i + 1] = "=")

\* section 4.3: a pinned line needs the name with that very version, a bare
\* line needs the name only
Satisfied(line, table) ==
    IF IsPair(line)
    THEN /\ Lower(PairName(line)) \in DOMAIN table
         /\ table[Lower(PairName(line))] = PairVersion(line)
    ELSE Lower(line) \in DOMAIN table

\* the non-blank lines of the whole file, stripped, in file order
RECURSIVE NonBlank(_)
NonBlank(lines) ==
    IF lines = <<>> THEN <<>>
    ELSE IF Strip(Head(lines)) = <<>> THEN NonBlank(Tail(lines))
    ELSE <<Strip(Head(lines))>> \o NonBlank(Tail(lines))

RequirementLines(content) == NonBlank(Split(content, <<NL>>))

\* the requirement lines that is_package_installed does not report satisfied
RECURSIVE Unsatisfied(_, _)
Unsatisfied(lines, table) ==
    IF lines = <<>> THEN <<>>
    ELSE LET r == is_package_installed(Head(lines), table)
         IN  IF r.kind = "return" /\ Truthy(r.value)
             THEN Unsatisfied(Tail(lines), table)
             ELSE <<Head(lines)>> \o Unsatisfied(Tail(lines), table)

FreezeLinesOf(freeze) == Split(freeze.stdout, <<NL>>)

FreezeSucceeded(freeze) == freeze.kind = "exit" /\ freeze.code = 0
ExitedNonZero(resp) == resp.kind = "exit" /\ resp.code # 0

\* the table section 4.2 describes for a pip freeze output whose lines with
\* "==" are all pairs: one entry per pair, the last pair of a name deciding
IsTableOf(table, lines) ==
    /\ DOMAIN table = {Lower(PairName(lines[i])) : i \in {j \in 1..Len(lines) : ~IsBare(lines[j])}}
    /\ \A i \in 1..Len(lines) :
         (/\ ~IsBare(lines[i])
          /\ \A j \in (i + 1)..Len(lines) :
                IsBare(lines[j]) \/ Lower(PairName(lines[j])) # Lower(PairName(lines[i])))
            => table[Lower(PairName(lines[i]))] = PairVersion(lines[i])

\* the table install_requirements works with, when the query gave one
QueriedTable == ParseFreeze(FreezeLinesOf(input.freeze), EmptyDict)

\* the requirements file as install_requirements read it
FileRead == input.file_at_open.content

\* install_requirements has ended, and had found the file, queried the table
\* and read the file as text
RequirementsRead ==
    /\ op = "install_requirements"
    /\ pc = "done"
    /\ input.file.kind # "missing"
    /\ input.file_at_open.kind = "text"
    /\ FreezeSucceeded(input.freeze)
    /\ QueriedTable.kind = "return"

----------------------------------------------------------------------------
(* Claims                                                                  *)

\* C1: for a line name==version, is_package_installed returns true exactly
\* when the table holds lowercase(name) with the identical version string,
\* and false otherwise.
C1_PinnedIffSameVersion ==
    (op = "is_package_installed" /\ IsPair(input.line)) =>
        /\ outcome.kind = "return"
        /\ Truthy(outcome.value) <=> Satisfied(input.line, input.table)

\* C2: for a line without "==", is_package_installed returns true exactly when
\* the lowercased line is a key of the table, whatever the version under it.
C2_BareIffKey ==
    (op = "is_package_installed" /\ IsBare(input.line)) =>
        /\ outcome.kind = "return"
        /\ outcome.value.t = "bool"
        /\ outcome.value.b <=>
             \E k \in DOMAIN input.table :
                /\ Len(k) = Len(input.line)
                /\ \A i \in 1..Len(k) : k[i] = LowerChar(input.line[i])

C2_Witness ==
    /\ op = "is_package_installed"
    /\ input.line = <<"B">>
    /\ <<"b">> \in DOMAIN input.table
    /\ outcome.kind = "return" /\ outcome.value.t = "bool" /\ outcome.value.b

\* C3: with a path that names no regular file, install_requirements raises
\* MissingRequirementsFileError and runs no subprocess at all.
C3_MissingFileNoSubprocess ==
    (op = "install_requirements" /\ input.file.kind = "missing") =>
        /\ outcome.kind = "raise"
        /\ outcome.exc = "MissingRequirementsFileError"
        /\ calls = <<>>

C3_Witness ==
    /\ op = "install_requirements"
    /\ pc = "done"
    /\ input.file.kind = "missing"
    /\ outcome.exc = "MissingRequirementsFileError"
    /\ calls = <<>>

\* C4: when every requirement line of the file is satisfied by the queried
\* table, so that nothing is left to install, install_requirements runs the
\* pip freeze query only and completes without raising.
C4_NothingToInstallNoInstallCall ==
    (/\ RequirementsRead
     /\ \A i \in 1..Len(RequirementLines(FileRead)) :
           Satisfied(RequirementLines(FileRead)[i], QueriedTable.value.d)
     /\ Unsatisfied(RequirementLines(FileRead), QueriedTable.value.d) = <<>>)
        => /\ calls = <<FreezeCommand>>
           /\ outcome.kind = "return"

\* C5: install_modules returns true only when pip install exits zero, and
\* raises ModuleInstallationError for every non-zero exit, with the default
\* logger argument as with an explicit one.
C5_TrueOnlyOnZeroElseInstallationError ==
    op = "install_modules" =>
        /\ outcome.kind = "return" => (Truthy(outcome.value) /\ FreezeSucceeded(input.inst))
        /\ ExitedNonZero(input.inst) =>
              (outcome.kind = "raise" /\ outcome.exc = "ModuleInstallationError")

\* C6: the table of get_installed_packages has the entry lowercase(name) ->
\* version for every pip freeze line name==version, nothing for a line without
\* "==", and no other entry.
C6_TableOfFreezeOutput ==
    (/\ op = "get_installed_packages"
     /\ FreezeSucceeded(input.freeze)
     /\ \A i \in 1..Len(FreezeLinesOf(input.freeze)) :
           IsBare(FreezeLinesOf(input.freeze)[i]) \/ IsPair(FreezeLinesOf(input.freeze)[i]))
        => /\ outcome.kind = "return"
           /\ outcome.value.t = "dict"
           /\ IsTableOf(outcome.value.d, FreezeLinesOf(input.freeze))

\* lines a==1, B==2, ab give exactly {a: 1, b: 2}
C6_Witness ==
    /\ op = "get_installed_packages"
    /\ FreezeSucceeded(input.freeze)
    /\ FreezeLinesOf(input.freeze) =
          << <<"a", "=", "=", "1">>, <<"B", "=", "=", "2">>, <<"a", "b">> >>
    /\ outcome.kind = "return"
    /\ DOMAIN outcome.value.d = {<<"a">>, <<"b">>}
    /\ outcome.value.d[<<"a">>] = <<"1">>
    /\ outcome.value.d[<<"b">>] = <<"2">>

\* a version or a range is given when it is neither None nor the empty string
Given(v) == v.t = "str" /\ Len(v.s) > 0

\* C7: install_modules passes exactly one specifier to pip install:
\* module==version when a version is given, also beside a range; module
\* followed by the range when only a range is given; the module otherwise.
C7_OneSpecifier ==
    op = "install_modules" =>
        /\ Len(calls) = 1
        /\ calls[1].sub = "install"
        /\ Len(calls[1].specs) = 1
        /\ Given(input.version) =>
              calls[1].specs[1] = input.module \o <<"=", "=">> \o input.version.s
        /\ (~Given(input.version) /\ Given(input.version_range)) =>
              calls[1].specs[1] = input.module \o input.version_range.s
        /\ (~Given(input.version) /\ ~Given(input.version_range)) =>
              calls[1].specs[1] = input.module

C7_Witness ==
    /\ op = "install_modules"
    /\ Given(input.version) /\ Given(input.version_range)
    /\ calls = <<InstallCommand(<<>>, <<input.module \o <<"=", "=">> \o input.version.s>>)>>

\* C8: when the file exists and some requirement line is not satisfied,
\* install_requirements runs pip install once, after the query, with
\* --no-cache-dir --no-deps and with exactly the non-blank lines of the whole
\* file, stripped and in file order, that is_package_installed reports as not
\* satisfied.
C8_InstallsUnsatisfiedLines ==
    (/\ RequirementsRead
     /\ Unsatisfied(RequirementLines(FileRead), QueriedTable.value.d) # <<>>)
        => calls = <<FreezeCommand,
                     InstallCommand(<<"--no-cache-dir", "--no-deps">>,
                        Unsatisfied(RequirementLines(FileRead),
                                    QueriedTable.value.d))>>

\* C9: once the file exists, install_requirements ends in one of three ways:
\* normally when the pip invocations exit zero, with ModuleInstallationError
\* when one exits non-zero, with DependencyError itself on an OS-level error.
C9_ThreeOutcomes ==
    (op = "install_requirements" /\ pc = "done" /\ input.file.kind # "missing") =>
        \/ /\ outcome.kind = "return"
           /\ FreezeSucceeded(input.freeze) /\ FreezeSucceeded(input.inst)
        \/ /\ outcome.kind = "raise" /\ outcome.exc = "ModuleInstallationError"
           /\ ExitedNonZero(input.freeze) \/ ExitedNonZero(input.inst)
        \/ /\ outcome.kind = "raise" /\ outcome.exc = "DependencyError"
           /\ IsA(outcome.cause, "OSError")

\* the pip invocation whose non-zero exit ended the call
FailedInvocation ==
    IF op = "get_installed_packages" THEN input.freeze
    ELSE IF op = "install_modules" THEN input.inst
    ELSE IF Len(calls) = 1 THEN input.freeze ELSE input.inst

PipExitedNonZero ==
    /\ op \in {"get_installed_packages", "install_requirements", "install_modules"}
    /\ pc = "done"
    /\ calls # <<>>
    /\ ExitedNonZero(FailedInvocation)

\* C10: an exception raised because a pip subprocess exited non-zero carries a
\* message that contains the captured standard error, or 'Unknown error' when
\* that is empty; the message is never empty or absent.
C10_MessageCarriesStderr ==
    PipExitedNonZero =>
        /\ outcome.kind = "raise"
        /\ outcome.value.t = "str"
        /\ Contains(outcome.value.s, StderrOrUnknown(FailedInvocation.stderr))

====
